---- MODULE Spec2Model ----
(***************************************************************************)
(* distkeras/evaluators.py: Evaluator, AccuracyEvaluator, MseEvaluator.    *)
(*                                                                         *)
(* Callers (threads) hold an evaluator object and call evaluate on a       *)
(* shared Spark dataframe.  A dataframe is an immutable value: schema     *)
(* (ordered, typed column names) and rows.  A double is modelled as an     *)
(* exact rational [num, den] in lowest terms, a vector as a sequence of    *)
(* doubles.  Every statement of an evaluate body is one action; a          *)
(* statement that launches a Spark job (count, collect) may also end in    *)
(* an engine fault.                                                        *)
(*                                                                         *)
(* The receiver of evaluate is an argument of the method: Spec and SpecPar *)
(* draw it from the objects that carry the attributes evaluate reads.      *)
(* What the constructors yield is the subject of SpecNew (MseEvaluator's   *)
(* __init__ raises TypeError at its super call and yields no object).      *)
(*                                                                         *)
(* Spec     evaluate on a given receiver, one caller.                      *)
(* SpecPar  evaluate on given receivers, two interleaved callers.          *)
(* SpecNew  the three constructors.                                        *)
(***************************************************************************)
EXTENDS Integers, Sequences, FiniteSets, TLC

VARIABLES ev, df, pc, calls, loc, outcome, prev, ops, args

vars == <<ev, df, pc, calls, loc, outcome, prev, ops, args>>

(* ---------------------------------------------------------------- bounds *)
MaxRows == 3
MaxParRows == 1
MaxCalls == 2

Procs == {"t1", "t2"}

(* ------------------------------------------------- doubles as rationals *)
Abs(x) == IF x < 0 THEN -x ELSE x

RECURSIVE GCD(_, _)
GCD(a, b) == IF b = 0 THEN a ELSE GCD(b, a % b)

\* the double n/d, d > 0, in lowest terms
Frac(n, d) == LET g == GCD(Abs(n), d) IN [num |-> n \div g, den |-> d \div g]

R(n) == Frac(n, 1)

RatAdd(a, b) == Frac(a.num * b.den + b.num * a.den, a.den * b.den)
RatSub(a, b) == Frac(a.num * b.den - b.num * a.den, a.den * b.den)
RatMul(a, b) == Frac(a.num * b.num, a.den * b.den)

V(s) == [i \in 1..Len(s) |-> R(s[i])]

\* Python None / SQL NULL in a double slot, and a value whose computation raises
NoneVal == [num |-> 0, den |-> 0]
Raises == [num |-> 1, den |-> 0]

RECURSIVE SumSeq(_)
SumSeq(s) == IF s = <<>> THEN R(0) ELSE RatAdd(s[1], SumSeq(Tail(s)))

(* ------------------------------------------------------------ outcomes *)
Pending == [kind |-> "pending", exc |-> "", value |-> NoneVal]
Return(v) == [kind |-> "return", exc |-> "", value |-> v]
Raise(e) == [kind |-> "raise", exc |-> e, value |-> NoneVal]

(* ---------------------------------------------------------- dataframes *)
Column(n, t) == [name |-> n, type |-> t]

ColNames(d) == {d.cols[i].name : i \in 1..Len(d.cols)}
HasCol(d, n) == n \in ColNames(d)
ColIndex(d, n) == CHOOSE i \in 1..Len(d.cols) : d.cols[i].name = n
ColType(d, n) == d.cols[ColIndex(d, n)].type

\* the label and prediction cells of the rows a dataframe is drawn from
ScalarRows == << <<R(1), R(1)>>, <<R(0), R(1)>> >>
VectorRows ==
    << <<V(<<1, 2>>), V(<<1, 2>>)>>,
       <<V(<<1, 2>>), V(<<3, 2>>)>>,
       <<V(<<1>>), V(<<3>>)>>,
       <<V(<<1, 2>>), V(<<1, 2, 3>>)>> >>
MixedRows == << <<V(<<0, 1>>), R(1)>> >>

Kinds == {"scalar", "vector", "mixed"}
Pool(k) == IF k = "scalar" THEN ScalarRows ELSE IF k = "vector" THEN VectorRows ELSE MixedRows
LabelType(k) == IF k = "scalar" THEN "double" ELSE "vector"
PredictionType(k) == IF k = "vector" THEN "vector" ELSE "double"

\* a score column left by an earlier run
StaleScore == R(7)

\* rows are a multiset: one sequence per multiset, pool indices non-decreasing
RowChoices(k, max) ==
    UNION {{s \in [1..n -> 1..Len(Pool(k))] : \A i \in 1..n : i < n => s[i] <= s[i + 1]}
           : n \in 0..max}

MkRow(k, j, scored) ==
    LET base == ("label" :> Pool(k)[j][1]) @@ ("prediction" :> Pool(k)[j][2])
    IN IF scored THEN base @@ ("mse_score" :> StaleScore) ELSE base

MkFrame(k, s, scored) ==
    [cols |-> <<Column("label", LabelType(k)), Column("prediction", PredictionType(k))>>
              \o (IF scored THEN <<Column("mse_score", "double")>> ELSE <<>>),
     rows |-> [i \in 1..Len(s) |-> MkRow(k, s[i], scored)]]

Frames(max) ==
    UNION {{MkFrame(k, s, scored) : s \in RowChoices(k, max), scored \in BOOLEAN} : k \in Kinds}

NoFrame == [cols |-> <<>>, rows |-> <<>>]

(* ------------------------------------------- the engine's operations *)
\* DataFrame.count()
Count(d) == Len(d.rows)

\* dataframe[a] == dataframe[b] is analysed only when both columns resolve
\* and have the same type
Comparable(d, a, b) == HasCol(d, a) /\ HasCol(d, b) /\ ColType(d, a) = ColType(d, b)

\* a filter that keeps the rows whose cells differ
WhereUnequal(d, a, b) == [d EXCEPT !.rows = SelectSeq(d.rows, LAMBDA r : r[a] # r[b])]

\* DataFrame.where(dataframe[a] == dataframe[b])
Where(d, a, b) == [d EXCEPT !.rows = SelectSeq(d.rows, LAMBDA r : r[a] = r[b])]

\* the value a cell of type t has inside the udf: a DenseVector, or a float
\* that numpy treats as an array of one element
AsArray(v, t) == IF t = "vector" THEN v ELSE <<v>>

\* numpy broadcasting of x - y
CanBroadcast(x, y) == Len(x) = Len(y) \/ Len(x) = 1 \/ Len(y) = 1

Minus(x, y) ==
    LET n == IF Len(x) >= Len(y) THEN Len(x) ELSE Len(y)
    IN [i \in 1..n |-> RatSub(IF Len(x) = 1 THEN x[1] ELSE x[i],
                               IF Len(y) = 1 THEN y[1] ELSE y[i])]

Squares(d) == [i \in 1..Len(d) |-> RatMul(d[i], d[i])]

\* ndarray.mean(), and avg over a column: the sum over the number of elements
Mean(s) == LET t == SumSeq(s) IN Frac(t.num, t.den * Len(s))

\* a udf that sums the squares instead of averaging them
mse_func_sum(x, y) == IF CanBroadcast(x, y) THEN SumSeq(Squares(Minus(x, y))) ELSE Raises

mse_func(x, y) == IF CanBroadcast(x, y) THEN Mean(Squares(Minus(x, y))) ELSE Raises

\* the udf column mse(dataframe[a], dataframe[b]), row by row
Scores(d, a, b) ==
    [i \in 1..Len(d.rows) |->
        mse_func(AsArray(d.rows[i][a], ColType(d, a)), AsArray(d.rows[i][b], ColType(d, b)))]

\* a withColumn that appends a column even when one of that name exists
WithColumnAppending(d, name, vals) ==
    [cols |-> Append(d.cols, Column(name, "double")),
     rows |-> [i \in 1..Len(d.rows) |->
                 IF HasCol(d, name) THEN [d.rows[i] EXCEPT ![name] = vals[i]]
                 ELSE d.rows[i] @@ (name :> vals[i])]]

\* DataFrame.withColumn(name, col): a new frame; a column of that name is replaced
WithColumn(d, name, vals) ==
    IF HasCol(d, name)
    THEN [cols |-> [i \in 1..Len(d.cols) |->
                      IF d.cols[i].name = name THEN Column(name, "double") ELSE d.cols[i]],
          rows |-> [i \in 1..Len(d.rows) |-> [d.rows[i] EXCEPT ![name] = vals[i]]]]
    ELSE [cols |-> Append(d.cols, Column(name, "double")),
          rows |-> [i \in 1..Len(d.rows) |-> d.rows[i] @@ (name :> vals[i])]]

ColumnCells(d, name) == [i \in 1..Len(d.rows) |-> d.rows[i][name]]

\* select(name).groupBy().avg(name).collect()[0][0]: NULL over no rows
Avg(d, name) == IF Len(d.rows) = 0 THEN NoneVal ELSE Mean(ColumnCells(d, name))

\* a division guarded to give 0.0 on a zero divisor
FloatDivOrZero(a, b) == IF b = 0 THEN Return(R(0)) ELSE Return(Frac(a, b))

\* float(a) / float(b)
FloatDiv(a, b) == IF b = 0 THEN Raise("ZeroDivisionError") ELSE Return(Frac(a, b))

\* float(x)
Float(x) == IF x = NoneVal THEN Raise("TypeError") ELSE Return(x)

(* ------------------------------------------------- evaluator objects *)
NoObj == [cls |-> "none", attrs |-> [label_column |-> "", prediction_column |-> ""]]

LabelNames == {"label", "target"}
PredictionNames == {"prediction", "output"}
ScoreNames == {"mse_score", "label"}

EvaluatorObjs ==
    {[cls |-> "Evaluator", attrs |-> [label_column |-> "label", prediction_column |-> "prediction"]]}
AccuracyObjs ==
    {[cls |-> "AccuracyEvaluator", attrs |-> [label_column |-> l, prediction_column |-> q]]
        : l \in LabelNames, q \in PredictionNames}
MseObjs ==
    {[cls |-> "MseEvaluator",
      attrs |-> [label_column |-> l, prediction_column |-> q, score_col |-> c]]
        : l \in LabelNames, q \in PredictionNames, c \in ScoreNames}
Receivers == EvaluatorObjs \cup AccuracyObjs \cup MseObjs

\* the first statement of cls.evaluate
Entry(cls) == IF cls = "Evaluator" THEN "L28" ELSE IF cls = "AccuracyEvaluator" THEN "L45" ELSE "L76"

(* ------------------------------------------------------ call frames *)
NoLocals ==
    [dataframe |-> NoFrame, num_instances |-> 0, cleaned |-> NoFrame,
     validated_instances |-> 0, mse_score |-> NoneVal]

Issued(op, d, ok) == [op |-> op, on |-> d, ok |-> ok]

\* the statement at pc[p] completes and control moves to line l
Goto(p, l, locals, issued) ==
    /\ pc' = [pc EXCEPT ![p] = l]
    /\ loc' = [loc EXCEPT ![p] = locals]
    /\ ops' = [ops EXCEPT ![p] = @ \o issued]
    /\ UNCHANGED <<ev, df, calls, outcome, prev, args>>

\* evaluate returns or raises: the frame is dropped, the caller gets o
Finish(p, o, issued) ==
    /\ pc' = [pc EXCEPT ![p] = "done"]
    /\ outcome' = [outcome EXCEPT ![p] = o]
    /\ loc' = [loc EXCEPT ![p] = NoLocals]
    /\ ops' = [ops EXCEPT ![p] = @ \o issued]
    /\ UNCHANGED <<ev, df, calls, prev, args>>

\* caller p calls ev[p].evaluate(df)
Call(p) ==
    /\ pc[p] \in {"idle", "done"}
    /\ ev[p].cls # "none"
    /\ calls[p] < MaxCalls
    /\ pc' = [pc EXCEPT ![p] = Entry(ev[p].cls)]
    /\ calls' = [calls EXCEPT ![p] = @ + 1]
    /\ prev' = [prev EXCEPT ![p] = outcome[p]]
    /\ outcome' = [outcome EXCEPT ![p] = Pending]
    /\ ops' = [ops EXCEPT ![p] = <<>>]
    /\ loc' = [loc EXCEPT ![p] = [NoLocals EXCEPT !.dataframe = df]]
    /\ UNCHANGED <<ev, df, args>>

(* ------------------------------------------------ Evaluator.evaluate *)
\* a base evaluate that returns 0.0
EvaluatorEvaluateZero(p) ==
    /\ pc[p] = "L28"
    /\ Finish(p, Return(R(0)), <<>>)

(* ------------------------------------------------ Evaluator.evaluate *)
EvaluatorEvaluate(p) ==
    /\ pc[p] = "L28"
    /\ Finish(p, Raise("NotImplementedError"), <<>>)

(* ---------------------------------------- AccuracyEvaluator.evaluate *)
\* a count that is issued again after the engine failed it
AccCountRetrying(p) ==
    /\ pc[p] = "L45"
    /\ \E fault \in BOOLEAN :
         LET d == loc[p].dataframe IN
         IF fault
         THEN /\ Len(ops[p]) < 2
              /\ Goto(p, "L45", loc[p], <<Issued("count", d, FALSE)>>)
         ELSE Goto(p, "L47", [loc[p] EXCEPT !.num_instances = Count(d)],
                   <<Issued("count", d, TRUE)>>)

\* num_instances = dataframe.count()
AccCount(p) ==
    /\ pc[p] = "L45"
    /\ \E fault \in BOOLEAN :
         LET d == loc[p].dataframe IN
         IF fault
         THEN Finish(p, Raise("Py4JJavaError"), <<Issued("count", d, FALSE)>>)
         ELSE Goto(p, "L47", [loc[p] EXCEPT !.num_instances = Count(d)],
                   <<Issued("count", d, TRUE)>>)

\* a filter applied to the caller's frame in place
AccWhereInPlace(p) ==
    /\ pc[p] = "L47"
    /\ LET d == loc[p].dataframe
           a == ev[p].attrs.prediction_column
           b == ev[p].attrs.label_column
       IN IF Comparable(d, a, b)
          THEN /\ pc' = [pc EXCEPT ![p] = "L49"]
               /\ loc' = [loc EXCEPT ![p] = [@ EXCEPT !.cleaned = Where(d, a, b)]]
               /\ df' = Where(d, a, b)
               /\ ops' = [ops EXCEPT ![p] = Append(@, Issued("where", d, TRUE))]
               /\ UNCHANGED <<ev, calls, outcome, prev, args>>
          ELSE Finish(p, Raise("AnalysisException"), <<Issued("where", d, FALSE)>>)

\* cleaned = dataframe.where(dataframe[prediction_column] == dataframe[label_column])
AccWhere(p) ==
    /\ pc[p] = "L47"
    /\ LET d == loc[p].dataframe
           a == ev[p].attrs.prediction_column
           b == ev[p].attrs.label_column
       IN IF Comparable(d, a, b)
          THEN Goto(p, "L49", [loc[p] EXCEPT !.cleaned = Where(d, a, b)],
                    <<Issued("where", d, TRUE)>>)
          ELSE Finish(p, Raise("AnalysisException"), <<Issued("where", d, FALSE)>>)

\* validated_instances = cleaned.count()
AccCountCleaned(p) ==
    /\ pc[p] = "L49"
    /\ \E fault \in BOOLEAN :
         LET d == loc[p].cleaned IN
         IF fault
         THEN Finish(p, Raise("Py4JJavaError"), <<Issued("count", d, FALSE)>>)
         ELSE Goto(p, "L51", [loc[p] EXCEPT !.validated_instances = Count(d)],
                   <<Issued("count", d, TRUE)>>)

\* return float(validated_instances) / float(num_instances)
AccReturn(p) ==
    /\ pc[p] = "L51"
    /\ Finish(p, FloatDiv(loc[p].validated_instances, loc[p].num_instances), <<>>)

(* --------------------------------------------- MseEvaluator.evaluate *)
\* a withColumn whose result, when every row can be scored, also replaces the
\* caller's frame
MseWithColumnInPlace(p) ==
    /\ pc[p] = "L76"
    /\ LET d == loc[p].dataframe
           a == ev[p].attrs.label_column
           b == ev[p].attrs.prediction_column
       IN IF HasCol(d, a) /\ HasCol(d, b)
          THEN /\ pc' = [pc EXCEPT ![p] = "L78"]
               /\ loc' = [loc EXCEPT ![p] = [@ EXCEPT !.dataframe =
                                                 WithColumn(d, ev[p].attrs.score_col, Scores(d, a, b))]]
               /\ df' = IF \E i \in 1..Len(d.rows) : Scores(d, a, b)[i] = Raises THEN df
                        ELSE WithColumn(d, ev[p].attrs.score_col, Scores(d, a, b))
               /\ ops' = [ops EXCEPT ![p] = Append(@, Issued("withColumn", d, TRUE))]
               /\ UNCHANGED <<ev, calls, outcome, prev, args>>
          ELSE Finish(p, Raise("AnalysisException"), <<Issued("withColumn", d, FALSE)>>)

\* dataframe = dataframe.withColumn(score_col, mse(dataframe[label_column], dataframe[prediction_column]))
MseWithColumn(p) ==
    /\ pc[p] = "L76"
    /\ LET d == loc[p].dataframe
           a == ev[p].attrs.label_column
           b == ev[p].attrs.prediction_column
       IN IF HasCol(d, a) /\ HasCol(d, b)
          THEN Goto(p, "L78",
                    [loc[p] EXCEPT !.dataframe = WithColumn(d, ev[p].attrs.score_col, Scores(d, a, b))],
                    <<Issued("withColumn", d, TRUE)>>)
          ELSE Finish(p, Raise("AnalysisException"), <<Issued("withColumn", d, FALSE)>>)

\* a mean requested on the frame that was passed in, not on the derived one
MseAvgOnArgument(p) ==
    /\ pc[p] = "L78"
    /\ \E fault \in BOOLEAN :
         LET d == df
             c == ev[p].attrs.score_col
         IN IF fault
            THEN Finish(p, Raise("Py4JJavaError"), <<Issued("avg", d, FALSE)>>)
            ELSE IF ~HasCol(d, c) \/ ColType(d, c) # "double"
            THEN Finish(p, Raise("AnalysisException"), <<Issued("avg", d, FALSE)>>)
            ELSE IF \E i \in 1..Len(d.rows) : d.rows[i][c] = Raises
            THEN Finish(p, Raise("ValueError"), <<Issued("avg", d, FALSE)>>)
            ELSE Goto(p, "L81", [loc[p] EXCEPT !.mse_score = Avg(d, c)],
                      <<Issued("avg", d, TRUE)>>)

\* mse_score = dataframe.select(score_col).groupBy().avg(score_col).collect()[0][0]
\* the udf runs inside this job: a row on which it raises fails the job
MseAvg(p) ==
    /\ pc[p] = "L78"
    /\ \E fault \in BOOLEAN :
         LET d == loc[p].dataframe
             c == ev[p].attrs.score_col
         IN IF fault
            THEN Finish(p, Raise("Py4JJavaError"), <<Issued("avg", d, FALSE)>>)
            ELSE IF ~HasCol(d, c) \/ ColType(d, c) # "double"
            THEN Finish(p, Raise("AnalysisException"), <<Issued("avg", d, FALSE)>>)
            ELSE IF \E i \in 1..Len(d.rows) : d.rows[i][c] = Raises
            THEN Finish(p, Raise("ValueError"), <<Issued("avg", d, FALSE)>>)
            ELSE Goto(p, "L81", [loc[p] EXCEPT !.mse_score = Avg(d, c)],
                      <<Issued("avg", d, TRUE)>>)

\* return float(mse_score)
MseReturn(p) ==
    /\ pc[p] = "L81"
    /\ Finish(p, Float(loc[p].mse_score), <<>>)

(* ------------------------------------------------------ constructors *)
Omitted == "<omitted>"
ArgNames == {"label", "y"}
ArgChoices == ArgNames \cup {Omitted}
NoArgs == [cls |-> "none", label_col |-> Omitted, prediction_col |-> Omitted, score_col |-> Omitted]

Default(a, d) == IF a = Omitted THEN d ELSE a

Parent(c) == IF c = "Evaluator" THEN "object" ELSE "Evaluator"

RECURSIVE IsSubclass(_, _)
IsSubclass(c, d) == c = d \/ (c # "object" /\ IsSubclass(Parent(c), d))

\* super(type, self): the class after type in the order of self's class, or
\* a TypeError when self is no instance of type
Super(type, selfcls) == IF IsSubclass(selfcls, type) THEN Parent(type) ELSE "TypeError"

\* Evaluator.__init__
EvaluatorInit(label_col, prediction_col) ==
    [label_column |-> label_col, prediction_column |-> prediction_col]

Construct(p, cls, a, result) ==
    /\ args' = [args EXCEPT ![p] = [a EXCEPT !.cls = cls]]
    /\ IF result.cls = "none"
       THEN /\ pc' = [pc EXCEPT ![p] = "done"]
            /\ outcome' = [outcome EXCEPT ![p] = Raise("TypeError")]
            /\ UNCHANGED ev
       ELSE /\ pc' = [pc EXCEPT ![p] = "idle"]
            /\ ev' = [ev EXCEPT ![p] = result]
            /\ UNCHANGED outcome
    /\ UNCHANGED <<df, calls, loc, prev, ops>>

\* Evaluator(label_col="label", prediction_col="prediction")
NewEvaluator(p) ==
    /\ pc[p] = "new"
    /\ \E l \in ArgChoices, q \in ArgChoices :
        Construct(p, "Evaluator", [NoArgs EXCEPT !.label_col = l, !.prediction_col = q],
                  [cls |-> "Evaluator",
                   attrs |-> EvaluatorInit(Default(l, "label"), Default(q, "prediction"))])

\* AccuracyEvaluator(label_col="label", prediction_col="prediction"):
\* super(AccuracyEvaluator, self).__init__(label_col, prediction_col)
AccuracyEvaluatorNew(l, q) ==
    IF Super("AccuracyEvaluator", "AccuracyEvaluator") = "Evaluator"
    THEN [cls |-> "AccuracyEvaluator", attrs |-> EvaluatorInit(l, q)]
    ELSE NoObj

NewAccuracyEvaluator(p) ==
    /\ pc[p] = "new"
    /\ \E l \in ArgChoices, q \in ArgChoices :
        Construct(p, "AccuracyEvaluator", [NoArgs EXCEPT !.label_col = l, !.prediction_col = q],
                  AccuracyEvaluatorNew(Default(l, "label"), Default(q, "prediction")))

\* MseEvaluator(label_col="label", prediction_col="prediction", score_col="mse_score"):
\* super(AccuracyEvaluator, self).__init__(label_col, prediction_col); self.score_col = score_col
MseEvaluatorNew(l, q, c) ==
    IF Super("AccuracyEvaluator", "MseEvaluator") = "Evaluator"
    THEN [cls |-> "MseEvaluator", attrs |-> EvaluatorInit(l, q) @@ [score_col |-> c]]
    ELSE NoObj

NewMseEvaluator(p) ==
    /\ pc[p] = "new"
    /\ \E l \in ArgChoices, q \in ArgChoices, c \in ArgChoices :
        Construct(p, "MseEvaluator",
                  [NoArgs EXCEPT !.label_col = l, !.prediction_col = q, !.score_col = c],
                  MseEvaluatorNew(Default(l, "label"), Default(q, "prediction"), Default(c, "mse_score")))

(* ---------------------------------------------------- specifications *)
Idle(callers, frames) ==
    /\ df \in frames
    /\ ev \in {e \in [Procs -> Receivers \cup {NoObj}] : \A p \in Procs : e[p] # NoObj <=> p \in callers}
    /\ pc = [p \in Procs |-> "idle"]
    /\ calls = [p \in Procs |-> 0]
    /\ loc = [p \in Procs |-> NoLocals]
    /\ outcome = [p \in Procs |-> Pending]
    /\ prev = [p \in Procs |-> Pending]
    /\ ops = [p \in Procs |-> <<>>]
    /\ args = [p \in Procs |-> NoArgs]

\* one caller holds an evaluator
Init == Idle({"t1"}, Frames(MaxRows))

\* every caller holds an evaluator of its own
InitPar == Idle(Procs, Frames(MaxParRows))

\* no evaluator has been constructed
InitNew ==
    /\ df \in Frames(0)
    /\ ev = [p \in Procs |-> NoObj]
    /\ pc = [p \in Procs |-> "new"]
    /\ calls = [p \in Procs |-> 0]
    /\ loc = [p \in Procs |-> NoLocals]
    /\ outcome = [p \in Procs |-> Pending]
    /\ prev = [p \in Procs |-> Pending]
    /\ ops = [p \in Procs |-> <<>>]
    /\ args = [p \in Procs |-> NoArgs]

Next ==
    \E p \in Procs :
        \/ Call(p)
        \/ EvaluatorEvaluate(p)
        \/ AccCount(p)
        \/ AccWhere(p)
        \/ AccCountCleaned(p)
        \/ AccReturn(p)
        \/ MseWithColumn(p)
        \/ MseAvg(p)
        \/ MseReturn(p)

NextNew ==
    \E p \in Procs :
        \/ NewEvaluator(p)
        \/ NewAccuracyEvaluator(p)
        \/ NewMseEvaluator(p)

Spec == Init /\ [][Next]_vars
SpecPar == InitPar /\ [][Next]_vars
SpecNew == InitNew /\ [][NextNew]_vars

(* ------------------------------------------------ what the claims use *)
Acc(p) == ev[p].cls = "AccuracyEvaluator"
Mse(p) == ev[p].cls = "MseEvaluator"
Done(p) == pc[p] = "done" /\ calls[p] >= 1
EngineFault(o) == o.kind = "raise" /\ o.exc = "Py4JJavaError"
Returned(p) == Done(p) /\ outcome[p].kind = "return"
LabelOf(p) == ev[p].attrs.label_column
PredictionOf(p) == ev[p].attrs.prediction_column
N == Len(df.rows)

\* a double equals the fraction a / b, b > 0
IsFraction(v, a, b) == v.den > 0 /\ v.num * b = a * v.den

RECURSIVE SumInt(_)
SumInt(s) == IF s = <<>> THEN 0 ELSE s[1] + SumInt(Tail(s))
RECURSIVE ProdInt(_)
ProdInt(s) == IF s = <<>> THEN 1 ELSE s[1] * ProdInt(Tail(s))

(* -------------------------------------------------------------- C1 *)
\* the rows of df whose prediction cell equals their label cell
Matching(p) == {i \in 1..N : df.rows[i][PredictionOf(p)] = df.rows[i][LabelOf(p)]}

\* C1: on a frame of N >= 1 rows whose configured prediction and label columns
\* exist and are comparable, of which M rows have equal cells, a call of
\* AccuracyEvaluator.evaluate that the engine does not fail returns M / N.
C1_AccuracyIsMOverN ==
    \A p \in Procs :
        (Acc(p) /\ Done(p) /\ N >= 1 /\ Comparable(df, PredictionOf(p), LabelOf(p))
           /\ ~EngineFault(outcome[p]))
        => /\ outcome[p].kind = "return"
           /\ IsFraction(outcome[p].value, Cardinality(Matching(p)), N)
           /\ (Cardinality(Matching(p)) = N => outcome[p].value = R(1))
           /\ (Cardinality(Matching(p)) = 0 => outcome[p].value = R(0))

C1_Witness ==
    \E p \in Procs :
        /\ Acc(p) /\ Returned(p) /\ N = 2 /\ LabelOf(p) = "label" /\ PredictionOf(p) = "prediction"
        /\ Cardinality(Matching(p)) = 1
        /\ outcome[p].value = [num |-> 1, den |-> 2]

(* -------------------------------------------------------------- C3 *)
\* label and prediction cells of every row are vectors of one length
EqualLengthVectors(p) ==
    /\ HasCol(df, LabelOf(p)) /\ HasCol(df, PredictionOf(p))
    /\ ColType(df, LabelOf(p)) = "vector" /\ ColType(df, PredictionOf(p)) = "vector"
    /\ \A i \in 1..N : Len(df.rows[i][LabelOf(p)]) = Len(df.rows[i][PredictionOf(p)])

RowLen(p, i) == Len(df.rows[i][LabelOf(p)])

\* the sum over the elements of row i of (label - prediction)^2; the cells of
\* the frames are whole numbers
RowSquares(p, i) ==
    SumInt([j \in 1..RowLen(p, i) |->
              (df.rows[i][LabelOf(p)][j].num - df.rows[i][PredictionOf(p)][j].num)
            * (df.rows[i][LabelOf(p)][j].num - df.rows[i][PredictionOf(p)][j].num)])

AllLens(p) == ProdInt([i \in 1..N |-> RowLen(p, i)])

\* (1/N) * sum_i RowSquares(i) / RowLen(i), over the common denominator N * AllLens
MeanOfRowMeans(p, v) ==
    IsFraction(v, SumInt([i \in 1..N |-> RowSquares(p, i) * (AllLens(p) \div RowLen(p, i))]),
               N * AllLens(p))

\* C3: on a non-empty frame whose label and prediction cells are vectors of
\* equal length, a call of MseEvaluator.evaluate that the engine does not fail
\* returns the mean over the rows of the row's mean squared difference: 0 when
\* every row has equal label and prediction, 2 for the one row [1,2] / [3,2],
\* 3 for two rows whose values are 2 and 4.
C3_MseIsMeanOfRowMeans ==
    \A p \in Procs :
        (Mse(p) /\ Done(p) /\ N >= 1 /\ EqualLengthVectors(p) /\ ~EngineFault(outcome[p]))
        => /\ outcome[p].kind = "return"
           /\ MeanOfRowMeans(p, outcome[p].value)
           /\ ((\A i \in 1..N : df.rows[i][LabelOf(p)] = df.rows[i][PredictionOf(p)])
                 => outcome[p].value = R(0))
           /\ ((N = 1 /\ df.rows[1][LabelOf(p)] = V(<<1, 2>>) /\ df.rows[1][PredictionOf(p)] = V(<<3, 2>>))
                 => outcome[p].value = R(2))
           /\ ((N = 2 /\ RowSquares(p, 1) = 2 * RowLen(p, 1) /\ RowSquares(p, 2) = 4 * RowLen(p, 2))
                 => outcome[p].value = R(3))

C3_Witness ==
    \E p \in Procs :
        /\ Mse(p) /\ Returned(p) /\ N = 2 /\ EqualLengthVectors(p)
        /\ RowSquares(p, 1) = 2 * RowLen(p, 1) /\ RowSquares(p, 2) = 4 * RowLen(p, 2)
        /\ RowLen(p, 1) # RowLen(p, 2)
        /\ outcome[p].value = R(3)

(* -------------------------------------------------------------- C4 *)
\* C4: AccuracyEvaluator.evaluate on a frame of no rows never returns a number;
\* with the configured columns present and comparable and no engine fault it
\* ends in ZeroDivisionError.
C4_EmptyFrameDividesByZero ==
    \A p \in Procs :
        (Acc(p) /\ Done(p) /\ N = 0)
        => /\ outcome[p].kind = "raise"
           /\ (Comparable(df, PredictionOf(p), LabelOf(p)) /\ ~EngineFault(outcome[p])
                 => outcome[p] = Raise("ZeroDivisionError"))

C4_Witness ==
    \E p \in Procs :
        Acc(p) /\ Done(p) /\ N = 0 /\ outcome[p] = Raise("ZeroDivisionError")
               /\ Len(ops[p]) = 3

(* -------------------------------------------------------------- C5 *)
ScoreOf(p) == ev[p].attrs.score_col

\* the frame that line 76 bound to dataframe in p's call
Derived(p) == loc[p].dataframe
HasDerived(p) == Mse(p) /\ pc[p] \in {"L78", "L81"}

\* the cells of every column of df other than those named in except are the
\* same in d
KeepsColumns(d, except) ==
    /\ Len(d.rows) = N
    /\ \A i \in 1..N : \A c \in ColNames(df) \ except : d.rows[i][c] = df.rows[i][c]

GrowsByScore(p) ==
    /\ Derived(p).cols = Append(df.cols, Column(ScoreOf(p), "double"))
    /\ KeepsColumns(Derived(p), {})

\* C5 as stated: for every input frame and every score column name, the frame
\* made by MseEvaluator.evaluate has the input schema plus one new column, and
\* the cells of the columns that existed are unchanged.
C5_AlwaysAddsOneColumn == \A p \in Procs : HasDerived(p) => GrowsByScore(p)

\* C5 amended: that holds when the score column name is not a column of the
\* input frame; when it is, the schema keeps its names and order, that column
\* becomes a double column, and the cells of all other columns are unchanged.
C5_AddsOrReplacesScoreColumn ==
    \A p \in Procs :
        HasDerived(p)
        => IF ~HasCol(df, ScoreOf(p))
           THEN GrowsByScore(p)
           ELSE /\ Len(Derived(p).cols) = Len(df.cols)
                /\ \A i \in 1..Len(df.cols) :
                     /\ Derived(p).cols[i].name = df.cols[i].name
                     /\ (df.cols[i].name # ScoreOf(p) => Derived(p).cols[i] = df.cols[i])
                /\ ColType(Derived(p), ScoreOf(p)) = "double"
                /\ KeepsColumns(Derived(p), {ScoreOf(p)})

C5_Witness ==
    \E p \in Procs :
        /\ HasDerived(p) /\ N = 2 /\ ~HasCol(df, ScoreOf(p))
        /\ Len(Derived(p).cols) = 3
        /\ Derived(p).rows[1][ScoreOf(p)] = R(2)

(* -------------------------------------------------------------- C6 *)
\* the number of columns of d named n
Copies(d, n) == Cardinality({i \in 1..Len(d.cols) : d.cols[i].name = n})

\* C6: a second evaluate in a row on the same frame ends as the first did
\* (engine faults aside), for both evaluators; MseEvaluator.evaluate on a frame
\* that already has a column named as the score column makes a frame with one
\* such column, and the call does not fail on that account.
C6_SecondCallSameResult ==
    \A p \in Procs :
        /\ (Done(p) /\ calls[p] >= 2 /\ ~EngineFault(outcome[p]) /\ ~EngineFault(prev[p]))
             => outcome[p] = prev[p]
        /\ (HasDerived(p) /\ HasCol(df, ScoreOf(p))) => Copies(Derived(p), ScoreOf(p)) = 1
        /\ (Mse(p) /\ Done(p) /\ HasCol(df, ScoreOf(p)) /\ N >= 1 /\ EqualLengthVectors(p)
              /\ ~EngineFault(outcome[p]))
             => outcome[p].kind = "return"

C6_Witness ==
    \E p \in Procs :
        /\ Mse(p) /\ Returned(p) /\ calls[p] = 2 /\ N = 2
        /\ ScoreOf(p) = "mse_score" /\ HasCol(df, "mse_score")
        /\ prev[p].kind = "return" /\ outcome[p] = prev[p]
        /\ outcome[p].value = R(3)

(* -------------------------------------------------------------- C7 *)
\* C7: evaluate of the base Evaluator ends in NotImplementedError on every
\* frame and issues no operation on the frame.
C7_BaseEvaluateNotImplemented ==
    \A p \in Procs :
        ev[p].cls = "Evaluator"
        => /\ ops[p] = <<>>
           /\ (Done(p) => outcome[p] = Raise("NotImplementedError"))
           /\ (calls[p] >= 1 => pc[p] \in {"L28", "done"})

C7_Witness ==
    \E p \in Procs :
        ev[p].cls = "Evaluator" /\ Done(p) /\ N = 2 /\ outcome[p] = Raise("NotImplementedError")

(* -------------------------------------------------------------- C8 *)
OpNames(p) == [i \in 1..Len(ops[p]) |-> ops[p][i].op]

\* C8: the operations of a call are issued in program order, each after the
\* one before it completed.  AccuracyEvaluator divides only after count on the
\* argument, where on the argument and count on the filtered frame completed;
\* MseEvaluator requests the mean only after withColumn completed, and on the
\* frame withColumn made, which carries the score column.
C8_OperationsInOrder ==
    \A p \in Procs :
        /\ (Acc(p) /\ (pc[p] = "L51" \/ (Done(p) /\ outcome[p].exc \in {"", "ZeroDivisionError"})))
             => /\ OpNames(p) = <<"count", "where", "count">>
                /\ \A i \in 1..3 : ops[p][i].ok
                /\ ops[p][1].on = df /\ ops[p][2].on = df
                /\ Len(ops[p][3].on.rows) = Cardinality(Matching(p))
        /\ Mse(p)
             => \A i \in 1..Len(ops[p]) :
                  ops[p][i].op = "avg"
                  => /\ i = 2
                     /\ ops[p][1].op = "withColumn" /\ ops[p][1].ok /\ ops[p][1].on = df
                     /\ HasCol(ops[p][2].on, ScoreOf(p))
                     /\ ColType(ops[p][2].on, ScoreOf(p)) = "double"
                     /\ ColumnCells(ops[p][2].on, ScoreOf(p)) = Scores(df, LabelOf(p), PredictionOf(p))

C8_Witness ==
    \E p \in Procs :
        /\ Mse(p) /\ Returned(p) /\ N = 2
        /\ OpNames(p) = <<"withColumn", "avg">>
        /\ ~HasCol(df, ScoreOf(p))

(* -------------------------------------------------------------- C9 *)
Failed(p) == \E i \in 1..Len(ops[p]) : ~ops[p][i].ok

\* C9: when an engine operation of a call fails, the call has ended in an
\* error: the failed operation is the last one issued (none after it, none
\* again) and the outcome is the error, not a number.
C9_FailureEndsTheCall ==
    \A p \in Procs :
        /\ \A i \in 1..Len(ops[p]) : ~ops[p][i].ok => i = Len(ops[p])
        /\ Failed(p) => (pc[p] = "done" /\ outcome[p].kind = "raise"
                            /\ loc[p] = NoLocals)

C9_Witness ==
    \E p \in Procs :
        /\ Acc(p) /\ Done(p) /\ LabelOf(p) = "target"
        /\ OpNames(p) = <<"count", "where">> /\ ~ops[p][2].ok
        /\ outcome[p] = Raise("AnalysisException")

(* ------------------------------------------------------------- C10 *)
\* what e.evaluate(d) ends in when it runs alone and the engine does not fail
Alone(e, d) ==
    LET a == e.attrs.label_column
        b == e.attrs.prediction_column
    IN IF e.cls = "Evaluator" THEN Raise("NotImplementedError")
       ELSE IF e.cls = "AccuracyEvaluator"
       THEN IF Comparable(d, b, a) THEN FloatDiv(Count(Where(d, b, a)), Count(d))
            ELSE Raise("AnalysisException")
       ELSE IF ~(HasCol(d, a) /\ HasCol(d, b)) THEN Raise("AnalysisException")
       ELSE IF \E i \in 1..Len(d.rows) : Scores(d, a, b)[i] = Raises THEN Raise("ValueError")
       ELSE IF d.rows = <<>> THEN Raise("TypeError")
       ELSE Return(Mean(Scores(d, a, b)))

\* C10: no step of any evaluate call changes an evaluator's configuration, and
\* however the calls of the callers interleave, a call that the engine does
\* not fail ends as the same call run alone on the frame.
C10_ConfigurationFixedCallsIndependent ==
    [][/\ ev' = ev
       /\ \A p \in Procs :
            (pc'[p] = "done" /\ ~EngineFault(outcome'[p])) => outcome'[p] = Alone(ev'[p], df')]_vars

C10_Witness ==
    /\ Acc("t1") /\ Mse("t2") /\ N = 1
    /\ pc["t1"] = "L51" /\ pc["t2"] = "L81"
    /\ Len(ops["t1"]) = 3 /\ Len(ops["t2"]) = 2

(* -------------------------------------------------------------- C2 *)
Given(a, d) == IF a = "<omitted>" THEN d ELSE a

\* C2: every construction succeeds and yields an evaluator of the class asked
\* for whose configuration is the arguments, with "label", "prediction" and
\* "mse_score" for the omitted ones.
C2_ConstructionYieldsConfiguration ==
    \A p \in Procs :
        args[p].cls # "none"
        => /\ ev[p].cls = args[p].cls
           /\ outcome[p].kind # "raise"
           /\ ev[p].attrs.label_column = Given(args[p].label_col, "label")
           /\ ev[p].attrs.prediction_column = Given(args[p].prediction_col, "prediction")
           /\ (args[p].cls = "MseEvaluator"
                 => ev[p].attrs.score_col = Given(args[p].score_col, "mse_score"))

====
